---- MODULE Spec2Model ----
(***************************************************************************)
(* A model of src/App.jsx: the to-do list held by App, its mirror in the   *)
(* localStorage slot "todos-v1" (useLocalStorage), the derived view        *)
(* (filtered, left) and the per-item edit state of TodoItem.               *)
(*                                                                         *)
(* A string is a sequence of one-character strings, so that trim() and     *)
(* String() are computed and not assumed.  The raw text of the slot is a   *)
(* sequence of JSON tokens, each token a string; JSON.stringify and        *)
(* JSON.parse work on tokens (the separators ',' and ':' are left out).    *)
(* One step of the model is one event handler together with the render     *)
(* and the effect React runs for the state it set.                         *)
(***************************************************************************)
EXTENDS Naturals, Sequences, FiniteSets

\* ------------------------------------------------------------------ bounds
\* The longest task list the model builds.
MaxTodos == 2
\* The number of identifiers crypto.randomUUID hands out in one session.
MaxUUID == 2
\* The last millisecond of the session's wall clock (it starts at 0).
MaxClock == 1

\* What the user types into the new-task field and into an edit field:
\* nothing, only white space, a plain text, a text wrapped in white space.
Typed == { <<>>, <<" ">>, <<"a">>, <<" ", "b", " ">> }

\* ----------------------------------------------------------------- strings
Digits == <<"0", "1", "2", "3", "4", "5", "6", "7", "8", "9">>

\* String(n) for a natural number: its decimal digits.
RECURSIVE ToString(_)
ToString(n) ==
    IF n < 10 THEN << Digits[n + 1] >>
    ELSE ToString(n \div 10) \o << Digits[(n % 10) + 1] >>

IsSpace(c) == c = " "

RECURSIVE TrimStart(_)
TrimStart(s) ==
    IF s # <<>> /\ IsSpace(Head(s)) THEN TrimStart(Tail(s)) ELSE s

RECURSIVE TrimEnd(_)
TrimEnd(s) ==
    IF s # <<>> /\ IsSpace(s[Len(s)])
    THEN TrimEnd(SubSeq(s, 1, Len(s) - 1))
    ELSE s

\* The text as typed: what trim() would be were it forgotten.
TrimNothing(s) == s

\* String.prototype.trim: white space is removed at both ends only.
Trim(s) == TrimEnd(TrimStart(s))

\* ------------------------------------------------------------- JSON values
\* A JavaScript value as JSON knows it.  items is used by arrays only.
Arr(recs) == [kind |-> "array", items |-> recs]
NullValue == [kind |-> "null", items |-> <<>>]
NumberValue == [kind |-> "number", items |-> <<>>]
ObjectValue == [kind |-> "object", items |-> <<>>]

Quote(s) == <<"\"">> \o s \o <<"\"">>
IsQuoted(tok) == Len(tok) >= 2 /\ tok[1] = "\"" /\ tok[Len(tok)] = "\""
Unquote(tok) == SubSeq(tok, 2, Len(tok) - 1)

BoolToken(b) == IF b THEN <<"true">> ELSE <<"false">>

StringifyRecord(r) ==
    << <<"{">>,
       Quote(<<"id">>), Quote(r.id),
       Quote(<<"text">>), Quote(r.text),
       Quote(<<"completed">>), BoolToken(r.completed),
       <<"}">> >>

RECURSIVE StringifyRecords(_)
StringifyRecords(recs) ==
    IF recs = <<>> THEN <<>>
    ELSE StringifyRecord(Head(recs)) \o StringifyRecords(Tail(recs))

\* JSON.stringify(value)
Stringify(v) ==
    CASE v.kind = "array" -> << <<"[">> >> \o StringifyRecords(v.items) \o << <<"]">> >>
      [] v.kind = "null" -> << <<"null">> >>
      [] v.kind = "number" -> << <<"5">> >>
      [] v.kind = "object" -> << <<"{">>, <<"}">> >>

IsRecordAt(toks) ==
    /\ Len(toks) >= 8
    /\ toks[1] = <<"{">>
    /\ toks[2] = Quote(<<"id">>) /\ IsQuoted(toks[3])
    /\ toks[4] = Quote(<<"text">>) /\ IsQuoted(toks[5])
    /\ toks[6] = Quote(<<"completed">>) /\ toks[7] \in {<<"true">>, <<"false">>}
    /\ toks[8] = <<"}">>

RecordAt(toks) ==
    [id |-> Unquote(toks[3]), text |-> Unquote(toks[5]),
     completed |-> (toks[7] = <<"true">>)]

\* The elements of an array: ok is FALSE on a syntax error.
RECURSIVE ParseRecords(_)
ParseRecords(toks) ==
    IF toks = <<>> THEN [ok |-> TRUE, items |-> <<>>]
    ELSE IF ~IsRecordAt(toks) THEN [ok |-> FALSE, items |-> <<>>]
    ELSE LET rest == ParseRecords(SubSeq(toks, 9, Len(toks)))
         IN  [ok |-> rest.ok,
              items |-> IF rest.ok THEN <<RecordAt(toks)>> \o rest.items ELSE <<>>]

\* JSON.parse(raw): ok is FALSE where JSON.parse throws a SyntaxError.
JSONparse(raw) ==
    IF raw = << <<"null">> >> THEN [ok |-> TRUE, value |-> NullValue]
    ELSE IF raw = << <<"5">> >> THEN [ok |-> TRUE, value |-> NumberValue]
    ELSE IF raw = << <<"{">>, <<"}">> >> THEN [ok |-> TRUE, value |-> ObjectValue]
    ELSE IF Len(raw) >= 2 /\ raw[1] = <<"[">> /\ raw[Len(raw)] = <<"]">>
    THEN LET body == ParseRecords(SubSeq(raw, 2, Len(raw) - 1))
         IN  [ok |-> body.ok, value |-> Arr(body.items)]
    ELSE [ok |-> FALSE, value |-> NullValue]

\* ------------------------------------------------------------------- state
VARIABLES
    pc,       \* "boot" before App is mounted, "running" after
    storage,  \* localStorage: "ok", "full" (setItem throws), "blocked" (getItem and setItem throw)
    hasUUID,  \* whether crypto.randomUUID exists in this browser
    slot,     \* the entry "todos-v1": [has, raw]
    todos,    \* App's todos state, a JavaScript value
    input,    \* App's input state
    filter,   \* App's filter state
    items,    \* the mounted TodoItems, one per element of filtered: [key, editing, draft]
    now,      \* Date.now(), in milliseconds since the session began
    uuids,    \* how many identifiers crypto.randomUUID has handed out
    error     \* where an exception went uncaught: "none", "load" or "render"

vars == <<pc, storage, hasUUID, slot, todos, input, filter, items, now, uuids, error>>

NoEntry == [has |-> FALSE, raw |-> <<>>]
Entry(raw) == [has |-> TRUE, raw |-> raw]

\* The k-th identifier crypto.randomUUID hands out in this session.  A UUID
\* is never a string of digits only.
UUID(k) == <<"u">> \o ToString(k)

\* The identifier of the k-th record of a list saved by an earlier session.
SavedId(k) == <<"s">> \o ToString(k)

\* The texts of saved records: addTodo and commit store trimmed texts.
SavedTexts == { <<"a">>, <<"b">> }

\* The lists of n records an earlier session may have saved, newest first.
RECURSIVE SavedListsOf(_)
SavedListsOf(n) ==
    IF n = 0 THEN { <<>> }
    ELSE { << [id |-> SavedId(n), text |-> t, completed |-> c] >> \o rest :
             t \in SavedTexts, c \in BOOLEAN, rest \in SavedListsOf(n - 1) }

SavedLists == UNION { SavedListsOf(n) : n \in 0..MaxTodos }

\* One of them.
StoredList == << [id |-> SavedId(1), text |-> <<"a">>, completed |-> TRUE] >>

\* A slot that holds no list: no entry, the empty string, a truncated text,
\* null, a number, an object.
GarbageSlots ==
    { NoEntry,
      Entry(<<>>),
      Entry(<< <<"[">>, <<"{">> >>),
      Entry(Stringify(NullValue)),
      Entry(Stringify(NumberValue)),
      Entry(Stringify(ObjectValue)) }

\* What the slot may hold when the page is opened.
InitSlots ==
    GarbageSlots \cup { Entry(Stringify(Arr(<<>>))), Entry(Stringify(Arr(StoredList))) }

\* The same, with every saved list.
SavedSlots ==
    GarbageSlots \cup { Entry(Stringify(Arr(l))) : l \in SavedLists }

\* localStorage as the page finds it.  Where setItem throws the slot keeps
\* what it holds for the whole session, and where getItem throws as well it
\* is never read: a saved list stands for every content there.
InitStorage ==
    ({"ok"} \X InitSlots)
        \cup ({"full", "blocked"} \X { Entry(Stringify(Arr(StoredList))) })

Filters == {"all", "active", "completed"}

\* --------------------------------------------------------- useLocalStorage
\* The initializer without its try/catch: the exceptions of getItem and of
\* JSON.parse reach the caller.
LoadNoCatch(initialValue) ==
    IF storage = "blocked" THEN [raised |-> TRUE, value |-> initialValue]
    ELSE IF ~slot.has \/ slot.raw = <<>> THEN [raised |-> FALSE, value |-> initialValue]
    ELSE IF ~JSONparse(slot.raw).ok THEN [raised |-> TRUE, value |-> initialValue]
    ELSE [raised |-> FALSE, value |-> JSONparse(slot.raw).value]

\* The initializer of useState: [raised, value].
Load(initialValue) ==
    IF storage = "blocked" THEN [raised |-> FALSE, value |-> initialValue]
    ELSE IF ~slot.has \/ slot.raw = <<>> THEN [raised |-> FALSE, value |-> initialValue]
    ELSE IF ~JSONparse(slot.raw).ok THEN [raised |-> FALSE, value |-> initialValue]
    ELSE [raised |-> FALSE, value |-> JSONparse(slot.raw).value]

\* The effect: the slot after localStorage.setItem(key, JSON.stringify(value)).
Save(value) ==
    IF storage = "ok" THEN Entry(Stringify(value)) ELSE slot

\* ------------------------------------------------------------ the reducers
\* crypto.randomUUID ? crypto.randomUUID() : String(Date.now())
NewId == IF hasUUID THEN UUID(uuids + 1) ELSE ToString(now)

addTodo(prev, text, id) ==
    LET t == Trim(text)
    IN  IF t = <<>> THEN prev
        ELSE << [id |-> id, text |-> t, completed |-> FALSE] >> \o prev

\* prev.map(x => x.id === id ? { ...x, completed: !x.completed } : x)
RECURSIVE toggle(_, _)
toggle(prev, id) ==
    IF prev = <<>> THEN <<>>
    ELSE LET x == Head(prev)
         IN  << IF x.id = id THEN [x EXCEPT !.completed = ~x.completed] ELSE x >>
                 \o toggle(Tail(prev), id)

del(prev, id) ==
    LET Keep(x) == x.id # id IN SelectSeq(prev, Keep)

\* prev.map(x => x.id === id ? { ...x, text } : x)
RECURSIVE edit(_, _, _)
edit(prev, id, text) ==
    IF prev = <<>> THEN <<>>
    ELSE LET x == Head(prev)
         IN  << IF x.id = id THEN [x EXCEPT !.text = text] ELSE x >>
                 \o edit(Tail(prev), id, text)

\* The filter with its test turned round: the completed records are kept.
clearActive(prev) ==
    LET Keep(x) == x.completed IN SelectSeq(prev, Keep)

clearCompleted(prev) ==
    LET Keep(x) == ~x.completed IN SelectSeq(prev, Keep)

\* ---------------------------------------------------------------- the view
\* The switch without its "active" case: that filter shows the whole list.
VisibleNoActive(list, f) ==
    LET Done(t) == t.completed
    IN  CASE f = "completed" -> SelectSeq(list, Done)
          [] OTHER -> list

Visible(list, f) ==
    LET Active(t) == ~t.completed
        Done(t) == t.completed
    IN  CASE f = "active" -> SelectSeq(list, Active)
          [] f = "completed" -> SelectSeq(list, Done)
          [] OTHER -> list

filtered == Visible(todos.items, filter)

Left(list) ==
    LET Active(t) == ~t.completed IN Len(SelectSeq(list, Active))

left == Left(todos.items)

\* ---------------------------------------------------------------- TodoItem
\* A TodoItem as it is mounted: useState(false), useState(todo.text).
Mounted(todo) == [key |-> todo.id, editing |-> FALSE, draft |-> todo.text]

\* The states the TodoItem rendered for todo may have, given the TodoItems
\* of the previous render: React keeps the item of the same key and mounts
\* one where there is none.  With a key used twice React promises nothing
\* (an item may be kept, replaced or mounted anew).
Candidates(old, todo, twice) ==
    LET same == { i \in DOMAIN old : old[i].key = todo.id }
    IN  IF same = {} THEN { Mounted(todo) }
        ELSE IF twice THEN { old[i] : i \in same } \cup { Mounted(todo) }
        ELSE { old[i] : i \in same }

RECURSIVE RendersOf(_, _, _)
RendersOf(old, list, all) ==
    IF list = <<>> THEN { <<>> }
    ELSE LET todo == Head(list)
             twice == \/ Cardinality({ i \in DOMAIN old : old[i].key = todo.id }) > 1
                      \/ Cardinality({ i \in DOMAIN all : all[i].id = todo.id }) > 1
         IN  { <<c>> \o rest : c \in Candidates(old, todo, twice),
                               rest \in RendersOf(old, Tail(list), all) }

Renders(old, list) == RendersOf(old, list, list)

\* ------------------------------------------------------------------ steps
Running == pc = "running" /\ error = "none"

\* setTodos without the effect of useLocalStorage: the slot is not written.
SetTodosNoEffect(next, ui) ==
    /\ todos' = Arr(next)
    /\ items' \in Renders(ui, Visible(next, filter))
    /\ slot' = slot

\* setTodos(next): App renders again, the TodoItems are reconciled and the
\* effect of useLocalStorage writes the slot.
SetTodos(next, ui) ==
    /\ todos' = Arr(next)
    /\ items' \in Renders(ui, Visible(next, filter))
    /\ slot' = Save(Arr(next))

Init ==
    /\ pc = "boot"
    /\ \E c \in InitStorage : storage = c[1] /\ slot = c[2]
    /\ hasUUID \in BOOLEAN
    /\ todos = Arr(<<>>)
    /\ input = <<>>
    /\ filter = "all"
    /\ items = <<>>
    /\ now = 0
    /\ uuids = 0
    /\ error = "none"

\* The first render of App: useState's initializer reads the slot, the
\* memos filtered and left are computed (todos.filter throws a TypeError on
\* a value that is no array, and React unmounts the page), and after a
\* render that went through the effect saves the value.
Mount ==
    /\ pc = "boot"
    /\ pc' = "running"
    /\ LET r == Load(Arr(<<>>))
       IN  IF r.raised
           THEN /\ error' = "load"
                /\ UNCHANGED <<todos, items, slot>>
           ELSE IF r.value.kind # "array"
           THEN /\ error' = "render"
                /\ todos' = r.value
                /\ UNCHANGED <<items, slot>>
           ELSE /\ error' = "none"
                /\ todos' = r.value
                /\ items' \in Renders(<<>>, Visible(r.value.items, filter))
                /\ slot' = Save(r.value)
    /\ UNCHANGED <<storage, hasUUID, input, filter, now, uuids>>

\* onChange of the new-task field.
SetInput(s) ==
    /\ Running
    /\ input' = s
    /\ UNCHANGED <<pc, storage, hasUUID, slot, todos, filter, items, now, uuids, error>>

\* Enter in the new-task field, or the Add button: addTodo(input).
ClickAdd ==
    /\ Running
    /\ IF Trim(input) = <<>>
       THEN UNCHANGED vars
       ELSE /\ Len(todos.items) < MaxTodos
            /\ hasUUID => uuids < MaxUUID
            /\ SetTodos(addTodo(todos.items, input, NewId), items)
            /\ input' = <<>>
            /\ uuids' = IF hasUUID THEN uuids + 1 ELSE uuids
            /\ UNCHANGED <<pc, storage, hasUUID, filter, now, error>>

\* The checkbox or a click on the text of the j-th visible item.
ClickToggle(j) ==
    /\ Running
    /\ j \in DOMAIN items
    /\ SetTodos(toggle(todos.items, filtered[j].id), items)
    /\ UNCHANGED <<pc, storage, hasUUID, input, filter, now, uuids, error>>

\* The Delete button of the j-th visible item.
ClickDelete(j) ==
    /\ Running
    /\ j \in DOMAIN items
    /\ SetTodos(del(todos.items, filtered[j].id), items)
    /\ UNCHANGED <<pc, storage, hasUUID, input, filter, now, uuids, error>>

\* Double click on the text, or the Edit button: setEditing(true).
StartEdit(j) ==
    /\ Running
    /\ j \in DOMAIN items
    /\ ~items[j].editing
    /\ items' = [items EXCEPT ![j].editing = TRUE]
    /\ UNCHANGED <<pc, storage, hasUUID, slot, todos, input, filter, now, uuids, error>>

\* onChange of the edit field.
SetDraft(j, s) ==
    /\ Running
    /\ j \in DOMAIN items
    /\ items[j].editing
    /\ items' = [items EXCEPT ![j].draft = s]
    /\ UNCHANGED <<pc, storage, hasUUID, slot, todos, input, filter, now, uuids, error>>

\* Enter in the edit field, or the field losing the focus: commit().
Commit(j) ==
    /\ Running
    /\ j \in DOMAIN items
    /\ items[j].editing
    /\ LET todo == filtered[j]
           t == Trim(items[j].draft)
           closed == [items EXCEPT ![j].editing = FALSE]
       IN  IF t # <<>> /\ t # todo.text
           THEN SetTodos(edit(todos.items, todo.id, t), closed)
           ELSE items' = closed /\ UNCHANGED <<todos, slot>>
    /\ UNCHANGED <<pc, storage, hasUUID, input, filter, now, uuids, error>>

\* Escape in the edit field: cancel().
Cancel(j) ==
    /\ Running
    /\ j \in DOMAIN items
    /\ items[j].editing
    /\ items' = [items EXCEPT ![j] = [@ EXCEPT !.draft = filtered[j].text, !.editing = FALSE]]
    /\ UNCHANGED <<pc, storage, hasUUID, slot, todos, input, filter, now, uuids, error>>

\* The "Clear completed" button.
ClickClearCompleted ==
    /\ Running
    /\ SetTodos(clearCompleted(todos.items), items)
    /\ UNCHANGED <<pc, storage, hasUUID, input, filter, now, uuids, error>>

\* A filter pill: setFilter(f), for a filter other than the current one (the
\* same one is no state change).  todos is the same array, so the effect of
\* useLocalStorage does not run; the items that leave the view unmount.
SetFilter(f) ==
    /\ Running
    /\ f # filter
    /\ filter' = f
    /\ items' \in Renders(items, Visible(todos.items, f))
    /\ UNCHANGED <<pc, storage, hasUUID, slot, todos, input, now, uuids, error>>

\* A millisecond passes.  The clock is read on the fallback branch of the
\* identifier only, so it is left alone where crypto.randomUUID exists.
Tick ==
    /\ Running
    /\ ~hasUUID
    /\ now < MaxClock
    /\ now' = now + 1
    /\ UNCHANGED <<pc, storage, hasUUID, slot, todos, input, filter, items, uuids, error>>

Next ==
    \/ Mount
    \/ \E s \in Typed : SetInput(s)
    \/ ClickAdd
    \/ \E j \in 1..MaxTodos : ClickToggle(j)
    \/ \E j \in 1..MaxTodos : ClickDelete(j)
    \/ \E j \in 1..MaxTodos : StartEdit(j)
    \/ \E j \in 1..MaxTodos, s \in Typed : SetDraft(j, s)
    \/ \E j \in 1..MaxTodos : Commit(j)
    \/ \E j \in 1..MaxTodos : Cancel(j)
    \/ ClickClearCompleted
    \/ \E f \in Filters : SetFilter(f)
    \/ Tick

Spec == Init /\ [][Next]_vars

\* The page opened on any saved list, under any state of localStorage, and
\* a user who completes, deletes, clears and filters: the adds and edits
\* that made the list lie in the earlier sessions that saved it.
InitStored ==
    /\ pc = "boot"
    /\ storage \in {"ok", "full", "blocked"}
    /\ hasUUID \in BOOLEAN
    /\ slot \in SavedSlots
    /\ todos = Arr(<<>>)
    /\ input = <<>>
    /\ filter = "all"
    /\ items = <<>>
    /\ now = 0
    /\ uuids = 0
    /\ error = "none"

NextStored ==
    \/ Mount
    \/ \E j \in 1..MaxTodos : ClickToggle(j)
    \/ \E j \in 1..MaxTodos : ClickDelete(j)
    \/ ClickClearCompleted
    \/ \E f \in Filters : SetFilter(f)

SpecStored == InitStored /\ [][NextStored]_vars

\* ------------------------------------------------------------------ claims
Blank(s) == \A i \in DOMAIN s : s[i] = " "

Ids(list) == { list[i].id : i \in DOMAIN list }

RECURSIVE IdSeq(_)
IdSeq(list) ==
    IF list = <<>> THEN <<>> ELSE << Head(list).id >> \o IdSeq(Tail(list))

UniqueIds(list) ==
    \A i, j \in DOMAIN list : i # j => list[i].id # list[j].id

\* a is b with some elements left out.
RECURSIVE IsSubseq(_, _)
IsSubseq(a, b) ==
    IF a = <<>> THEN TRUE
    ELSE IF b = <<>> THEN FALSE
    ELSE IF Head(a) = Head(b) THEN IsSubseq(Tail(a), Tail(b))
    ELSE IsSubseq(a, Tail(b))

ActiveIndices(list) == { i \in DOMAIN list : ~list[i].completed }
DoneIndices(list) == { i \in DOMAIN list : list[i].completed }

\* An identifier no record has.
AbsentId == <<"x">>

\* C1: once the list is loaded, every step leaves a list in which no two
\* records have the same id, and the ids of the records it keeps are the
\* ids they had (the ids of the new list are those of the old one, some
\* left out, with at most one new id in front).
C1_IdsUniqueAndKept ==
    [][pc = "running" =>
          /\ UniqueIds(todos'.items)
          /\ LET old == IdSeq(todos.items)
                 new == IdSeq(todos'.items)
             IN  \/ IsSubseq(new, old)
                 \/ new # <<>> /\ IsSubseq(Tail(new), old)]_vars

\* C2: in every state no record of the task list, and no record stored in
\* the slot, has a text that is empty or made of white space only.
C2_TextNeverBlank ==
    /\ \A i \in DOMAIN todos.items : ~Blank(todos.items[i].text)
    /\ (slot.has /\ JSONparse(slot.raw).ok) =>
          LET stored == JSONparse(slot.raw).value.items
          IN  \A i \in DOMAIN stored : ~Blank(stored[i].text)

\* C2, its case: an edit field was committed with a blank draft (the item
\* is out of edit mode and keeps that draft) and the record kept its text.
C2_Witness ==
    /\ Running
    /\ \E j \in DOMAIN items :
          /\ ~items[j].editing
          /\ Blank(items[j].draft)
          /\ ~Blank(filtered[j].text)
          /\ slot = Entry(Stringify(todos))

\* C3: between two user events, where localStorage accepts writes, the slot
\* holds the task list: reading it back gives the list in memory.
C3_SlotMirrorsList ==
    (Running /\ storage = "ok") =>
        /\ slot.has
        /\ JSONparse(slot.raw).ok
        /\ JSONparse(slot.raw).value = todos

\* C3, its case: a record added in this session with a trimmed text was
\* completed since, and the slot holds the list with it.
C3_Witness ==
    /\ Running
    /\ storage = "ok"
    /\ \E i \in DOMAIN todos.items :
          /\ todos.items[i].id \notin Ids(StoredList)
          /\ todos.items[i].completed
          /\ todos.items[i].text = <<"b">>
    /\ slot = Entry(Stringify(todos))

\* C4: mounting never ends in an exception of the load, and the list it
\* starts with is the default where the slot has no entry, cannot be read
\* or cannot be parsed, and the parsed value of the slot otherwise.
C4_LoadDefaultsOnFailure ==
    [][pc = "boot" =>
          /\ error' # "load"
          /\ todos' = IF \/ ~slot.has
                         \/ storage = "blocked"
                         \/ ~JSONparse(slot.raw).ok
                      THEN Arr(<<>>)
                      ELSE JSONparse(slot.raw).value]_vars

\* C4, its case: the slot holds a saved list of two records, reading it
\* fails, and the page runs with the empty default.
C4_Witness ==
    /\ Running
    /\ storage = "blocked"
    /\ slot.has
    /\ JSONparse(slot.raw).ok
    /\ Len(JSONparse(slot.raw).value.items) = 2
    /\ todos = Arr(<<>>)

\* C5: where the slot parses to a value that is no array, the page starts
\* with the empty list, runs, and writes the empty list to the slot.
C5_IncompatibleShapeReplaced ==
    [][(/\ pc = "boot"
        /\ storage = "ok"
        /\ slot.has
        /\ JSONparse(slot.raw).ok
        /\ JSONparse(slot.raw).value.kind # "array") =>
          /\ error' = "none"
          /\ todos' = Arr(<<>>)
          /\ slot' = Entry(Stringify(Arr(<<>>)))]_vars

\* C6: for the list in memory and every text s, add leaves the list as it
\* is when trim(s) is empty, and otherwise puts one record in front of it,
\* with text trim(s), not completed, and an id no record of the list has.
C6_AddPrepends ==
    Running =>
        \A s \in Typed :
            LET list == todos.items
                r == addTodo(list, s, NewId)
            IN  IF Blank(s) THEN r = list
                ELSE /\ Len(r) = Len(list) + 1
                     /\ r[1].text = Trim(s)
                     /\ ~r[1].completed
                     /\ r[1].id \notin Ids(list)
                     /\ Tail(r) = list

\* C7: for the list in memory and every id, toggle keeps the length, the
\* order, every id and every text; it changes one record, the one of that
\* id, by turning its completed round, and none where no record has the
\* id; toggling twice gives the list back.
C7_ToggleFlipsOne ==
    Running =>
        \A id \in Ids(todos.items) \cup {AbsentId} :
            LET list == todos.items
                r == toggle(list, id)
                changed == { i \in DOMAIN list : r[i] # list[i] }
            IN  /\ Len(r) = Len(list)
                /\ \A i \in DOMAIN list :
                      r[i].id = list[i].id /\ r[i].text = list[i].text
                /\ \A i \in changed :
                      list[i].id = id /\ r[i].completed = ~list[i].completed
                /\ Cardinality(changed) = IF id \in Ids(list) THEN 1 ELSE 0
                /\ toggle(r, id) = list

\* C8: for the list in memory, clearCompleted gives the records that are
\* not completed, all of them, unchanged and in their order; none of the
\* result is completed and the count of remaining items is its length.
C8_ClearKeepsActive ==
    Running =>
        LET list == todos.items
            r == clearCompleted(list)
        IN  /\ IsSubseq(r, list)
            /\ Len(r) = Cardinality(ActiveIndices(list))
            /\ \A i \in DOMAIN r : ~r[i].completed
            /\ Left(r) = Len(r)

\* C8, its case: the list holds a completed record and one that is not.
C8_Witness ==
    /\ Running
    /\ ActiveIndices(todos.items) # {}
    /\ DoneIndices(todos.items) # {}
    /\ Len(clearCompleted(todos.items)) < Len(todos.items)

\* The two filtered views split the list, and the view "all" is the list.
Partitioned(list) ==
    LET act == Visible(list, "active")
        done == Visible(list, "completed")
    IN  /\ IsSubseq(act, list) /\ IsSubseq(done, list)
        /\ \A i \in DOMAIN act : ~act[i].completed
        /\ \A i \in DOMAIN done : done[i].completed
        /\ Len(act) = Cardinality(ActiveIndices(list))
        /\ Len(done) = Cardinality(DoneIndices(list))
        /\ Len(act) + Len(done) = Len(list)
        /\ Visible(list, "all") = list

\* C9: before and after every step the views "active" and "completed" split
\* the list, each in the list's order, and "all" is the list; a step that
\* changes the filter changes neither the task list nor the slot.
C9_ViewsPartition ==
    [][/\ Partitioned(todos.items)
       /\ Partitioned(todos'.items)
       /\ filter' # filter => todos' = todos /\ slot' = slot]_vars

\* C9, its case: the filter was changed over a list that has a completed
\* record and one that is not, and the slot still holds the list.
C9_Witness ==
    /\ Running
    /\ filter = "active"
    /\ ActiveIndices(todos.items) # {}
    /\ DoneIndices(todos.items) # {}
    /\ Len(filtered) < Len(todos.items)
    /\ slot = Entry(Stringify(todos))

\* C10: a step that puts an item into edit mode, and does nothing else, shows
\* a draft equal to the text of its record.
C10_EditSeededWithText ==
    [][\A j \in DOMAIN items :
          (/\ todos' = todos
           /\ filter' = filter
           /\ ~items[j].editing
           /\ items' = [items EXCEPT ![j].editing = TRUE]) =>
              items'[j].draft = filtered[j].text]_vars

====
